---------------------------- MODULE Spec2Model ----------------------------
(***************************************************************************)
(* Model of src/app.py, a Streamlit data-cleaning script.  The script runs *)
(* from top to bottom once per user interaction ("run"); what survives     *)
(* between runs is st.session_state (uploaded_name, original_df, df) and   *)
(* the widget state kept by the framework (the uploaded file and the two   *)
(* sidebar checkboxes).  Every action below is one complete run.           *)
(*                                                                         *)
(* pandas behaviour is modelled for pandas 1.x/2.x, where                  *)
(* Series.fillna(method=...) is still accepted.                            *)
(***************************************************************************)
EXTENDS Integers, Sequences, FiniteSets, TLC

(* ------------------------------ bounds -------------------------------- *)

\* largest number of data rows of a file whose cleaning is followed
MaxRows == 3

\* largest number of data rows of a file in the runs that also follow the
\* uploader and the checkboxes
MaxSessionRows == 2

\* numeric and text cell values of those files (besides missing)
NumVals == {1}

StrVals == {"a"}

\* cell values of the files the imputation block is exercised on
WideNumVals == {1, 2}

WideStrVals == {"a", "b"}

\* names an uploaded file may have
FileNames == {"a.csv", "b.csv"}

\* texts the user may type into the numeric "Constant value" input
NumTexts == {"", "abc", "2", "nan"}

\* texts the user may type into the categorical "Constant value" input
CatTexts == {"", "x"}

(* ------------------------------- cells -------------------------------- *)

\* A cell is missing (NaN/None), a number (the rational n/d in lowest terms)
\* or a string.  All three share one record shape.
NaN == [k |-> "nan", n |-> 0, d |-> 1, s |-> ""]

RECURSIVE Gcd(_, _)
Gcd(a, b) == IF b = 0 THEN a ELSE Gcd(b, a % b)

Abs(x) == IF x < 0 THEN -x ELSE x

\* the number n/d, d > 0, in lowest terms
Num(n, d) ==
    LET g == Gcd(Abs(n), d)
    IN  [k |-> "num", n |-> n \div g, d |-> d \div g, s |-> ""]

Str(s) == [k |-> "str", n |-> 0, d |-> 1, s |-> s]

isnull(c) == c.k = "nan"

Add(a, b) == Num(a.n * b.d + b.n * a.d, a.d * b.d)

DivInt(a, m) == Num(a.n, a.d * m)

Less(a, b) == a.n * b.d < b.n * a.d

\* code-point order of the strings the model can hold (Python's str order)
StrOrder == <<"", "Unknown", "a", "b", "x">>

StrRank(s) == CHOOSE i \in 1..Len(StrOrder) : StrOrder[i] = s

\* sort order pandas uses to pick the first of several modes of one column
CellLess(a, b) ==
    IF a.k = "num" /\ b.k = "num" THEN Less(a, b)
    ELSE IF a.k = "str" /\ b.k = "str" THEN StrRank(a.s) < StrRank(b.s)
    ELSE a.k = "num" /\ b.k = "str"

(* ------------------------------- tables ------------------------------- *)

\* A DataFrame: the dtype class of each column ("num" for int64/float64,
\* "obj" for object), the index labels of the rows and the rows themselves.
\* Columns are named by their position.
DataFrame(dtypes, index, rows) ==
    [dtypes |-> dtypes, index |-> index, rows |-> rows]

\* the value held by the session where the script has stored no table yet
NoTable == DataFrame(<<>>, <<>>, <<>>)

\* the columns of the files the model uploads: one of numbers, one of text
FileCols == <<"num", "obj">>

NCols == Len(FileCols)

Cols == 1..NCols

len(t) == Len(t.rows)

Column(t, c) == [i \in 1..len(t) |-> t.rows[i][c]]

RangeIndex(n) == [i \in 1..n |-> i - 1]

\* pandas.api.types.is_numeric_dtype(df[col])
is_numeric_dtype(t, c) == t.dtypes[c] = "num"

\* DataFrame.reset_index(drop=True): the rows get the labels 0..n-1
reset_index(t) == DataFrame(t.dtypes, RangeIndex(len(t)), t.rows)

\* the rows of t whose position satisfies keep, with their labels
Take(t, keep) ==
    LET F[i \in 0..len(t)] ==
            IF i = 0 THEN <<>>
            ELSE IF keep[i] THEN Append(F[i - 1], i) ELSE F[i - 1]
        pos == F[len(t)]
    IN  DataFrame(t.dtypes,
                  [j \in 1..Len(pos) |-> t.index[pos[j]]],
                  [j \in 1..Len(pos) |-> t.rows[pos[j]]])

\* duplicated(keep="last") in the place of duplicated(): marks the rows
\* that have a later equal
duplicated_keep_last(t) ==
    [i \in 1..len(t) |-> \E j \in (i + 1)..len(t) : t.rows[j] = t.rows[i]]

\* DataFrame.duplicated(): True for a row equal to an earlier row
\* (keep="first", the default); pandas counts missing cells as equal
duplicated(t) ==
    [i \in 1..len(t) |-> \E j \in 1..(i - 1) : t.rows[j] = t.rows[i]]

\* DataFrame.duplicated(keep=False): True for a row equal to any other row
duplicated_keep_false(t) ==
    [i \in 1..len(t) |-> \E j \in 1..len(t) : j # i /\ t.rows[j] = t.rows[i]]

\* a removal that drops only the last of the rows duplicated() marks
drop_duplicates_last_only(t) ==
    LET m == duplicated(t)
    IN  Take(t, [i \in 1..len(t) |->
                    ~(m[i] /\ \A j \in (i + 1)..len(t) : ~m[j])])

\* DataFrame.drop_duplicates(): the rows duplicated() does not mark
drop_duplicates(t) ==
    LET m == duplicated(t) IN Take(t, [i \in 1..len(t) |-> ~m[i]])

\* dropna(how="all") in the place of dropna(): only the rows whose cells
\* are all missing go
dropna_how_all(t) ==
    Take(t, [i \in 1..len(t) |-> \E c \in Cols : ~isnull(t.rows[i][c])])

\* DataFrame.dropna(): the rows without a missing cell
dropna(t) ==
    Take(t, [i \in 1..len(t) |-> \A c \in Cols : ~isnull(t.rows[i][c])])

\* number of True entries of a boolean mask (Series.sum())
CountTrue(m) == Cardinality({i \in DOMAIN m : m[i]})

(* ----------------------------- read_file ------------------------------ *)

\* dtype pandas infers for a parsed column: object as soon as one cell is
\* text and for a column without rows, float64 (numeric) otherwise, so a
\* column whose cells are all missing is numeric
InferDtype(rows, c) ==
    IF Len(rows) = 0 \/ \E i \in 1..Len(rows) : rows[i][c].k = "str"
    THEN "obj" ELSE "num"

\* read_file: the parsed table of a readable file
read_file(rows) ==
    DataFrame([c \in Cols |-> InferDtype(rows, c)], RangeIndex(Len(rows)), rows)

\* cell values a file may hold in a column of the given kind
FileCells(kind, nums, strs) ==
    {NaN} \cup (IF kind = "num" THEN {Num(v, 1) : v \in nums}
                ELSE {Str(v) : v \in strs})

FileRow(nums, strs) ==
    {r \in [Cols -> FileCells("num", nums, strs) \cup FileCells("obj", nums, strs)] :
        \A c \in Cols : r[c] \in FileCells(FileCols[c], nums, strs)}

\* the row contents of the files with at most n rows over the given values
FileRows(nums, strs, n) == UNION {[1..k -> FileRow(nums, strs)] : k \in 0..n}

(* --------------------------- summary_stats ---------------------------- *)

\* a/b rounded to the nearest integer, ties to the even one (numpy's round)
RoundHalfEven(a, b) ==
    LET q == a \div b
        r == a % b
    IN  IF 2 * r < b THEN q
        ELSE IF 2 * r > b THEN q + 1
        ELSE IF q % 2 = 0 THEN q ELSE q + 1

\* (miss / total * 100).round(2), in hundredths of a percent.  pandas does
\* not raise on a division by zero: 0 / 0 is NaN and stays NaN when rounded
Pct(miss, total) ==
    IF total = 0 THEN [nan |-> TRUE, v |-> 0]
    ELSE [nan |-> FALSE, v |-> RoundHalfEven(miss * 10000, total)]

\* summary_stats counting with duplicated(keep=False)
summary_stats_keep_false(t) ==
    LET miss == [c \in Cols |-> CountTrue([i \in 1..len(t) |-> isnull(t.rows[i][c])])]
    IN  [dtype       |-> t.dtypes,
         missing     |-> miss,
         missing_pct |-> [c \in Cols |-> Pct(miss[c], len(t))],
         duplicates  |-> CountTrue(duplicated_keep_false(t))]

\* summary_stats(df): per column dtype, missing count and missing
\* percentage, plus the "__duplicates" row
summary_stats(t) ==
    LET miss == [c \in Cols |-> CountTrue([i \in 1..len(t) |-> isnull(t.rows[i][c])])]
    IN  [dtype       |-> t.dtypes,
         missing     |-> miss,
         missing_pct |-> [c \in Cols |-> Pct(miss[c], len(t))],
         duplicates  |-> CountTrue(duplicated(t))]

(* ------------------------- imputation helpers ------------------------- *)

\* positions of the non-missing cells of a column
Present(col) == {i \in DOMAIN col : ~isnull(col[i])}

RECURSIVE SumOver(_, _)
SumOver(col, I) ==
    IF I = {} THEN Num(0, 1)
    ELSE LET i == CHOOSE x \in I : TRUE
         IN  Add(col[i], SumOver(col, I \ {i}))

\* Series.mean(): the mean of the non-missing cells; NaN when there is
\* none (pandas returns NaN, it does not raise)
mean(col) ==
    LET P == Present(col)
    IN  IF P = {} THEN NaN ELSE DivInt(SumOver(col, P), Cardinality(P))

\* the k-th smallest of the non-missing cells of a numeric column
Kth(col, k) ==
    LET P == Present(col)
    IN  CHOOSE x \in {col[i] : i \in P} :
            /\ Cardinality({i \in P : Less(col[i], x)}) < k
            /\ k <= Cardinality({i \in P : ~Less(x, col[i])})

\* Series.median(): the middle non-missing cell, or the mean of the two
\* middle ones; NaN when there is none
median(col) ==
    LET m == Cardinality(Present(col))
    IN  IF m = 0 THEN NaN
        ELSE IF m % 2 = 1 THEN Kth(col, (m + 1) \div 2)
        ELSE DivInt(Add(Kth(col, m \div 2), Kth(col, m \div 2 + 1)), 2)

\* Series.mode(): the most frequent non-missing values; iloc[0] is the
\* smallest of them.  The code fills with "" when there is none
mode_fill(col) ==
    LET P     == Present(col)
        cnt(x) == Cardinality({i \in P : col[i] = x})
        modes == {x \in {col[i] : i \in P} :
                     \A y \in {col[i] : i \in P} : cnt(y) <= cnt(x)}
    IN  IF P = {} THEN Str("")
        ELSE CHOOSE x \in modes : \A y \in modes : y = x \/ CellLess(x, y)

\* an assignment of the value to the whole column instead of fillna
fillna_overwriting(col, v) == [i \in DOMAIN col |-> v]

\* Series.fillna(value): the missing cells take the value
fillna(col, v) == [i \in DOMAIN col |-> IF isnull(col[i]) THEN v ELSE col[i]]

\* fillna(method="ffill", limit=1): only the cell right below a non-missing
\* cell is filled
ffill_limit_one(col) ==
    [i \in DOMAIN col |->
        IF isnull(col[i]) /\ i > 1 THEN col[i - 1] ELSE col[i]]

\* Series.fillna(method="ffill"): a missing cell takes the nearest
\* non-missing cell above it, if there is one
ffill(col) ==
    LET F[i \in 0..Len(col)] ==
            IF i = 0 THEN <<>>
            ELSE IF isnull(col[i]) /\ i > 1 THEN Append(F[i - 1], F[i - 1][i - 1])
            ELSE Append(F[i - 1], col[i])
    IN  F[Len(col)]

Reverse(col) == [i \in 1..Len(col) |-> col[Len(col) + 1 - i]]

\* Series.fillna(method="bfill"): the same from the bottom upwards
bfill(col) == Reverse(ffill(Reverse(col)))

\* float(param) letting the ValueError of unparsable text through: the
\* fill value is then whatever the text is
ParseFloat_unchecked(text) ==
    CASE text = "2"   -> [ok |-> TRUE, v |-> Num(2, 1)]
      [] text = "nan" -> [ok |-> TRUE, v |-> NaN]
      [] OTHER        -> [ok |-> TRUE, v |-> Str(text)]

\* float(param) of the texts the model types: the number (float("nan") is
\* the float NaN), or not ok for text Python rejects with ValueError
ParseFloat(text) ==
    CASE text = "2"   -> [ok |-> TRUE, v |-> Num(2, 1)]
      [] text = "nan" -> [ok |-> TRUE, v |-> NaN]
      [] OTHER        -> [ok |-> FALSE, v |-> NaN]

\* an assignment that writes newcol into every column of the table
SetColumn_every_column(t, c, newcol) ==
    DataFrame([x \in Cols |->
                  IF \E i \in DOMAIN newcol : newcol[i].k = "str"
                  THEN "obj" ELSE t.dtypes[x]],
              t.index,
              [i \in 1..len(t) |-> [x \in Cols |-> newcol[i]]])

\* df[col] = newcol: the column is replaced in the table; its dtype becomes
\* object once it holds text, and stays what it was otherwise
SetColumn(t, c, newcol) ==
    DataFrame([x \in Cols |->
                  IF x # c THEN t.dtypes[x]
                  ELSE IF \E i \in DOMAIN newcol : newcol[i].k = "str"
                       THEN "obj" ELSE t.dtypes[c]],
              t.index,
              [i \in 1..len(t) |-> [x \in Cols |->
                  IF x = c THEN newcol[i] ELSE t.rows[i][x]]])

(* ----------------------------- strategies ----------------------------- *)

\* param of a strategy that takes none (Python's None)
None == "<None>"

\* what the strategy widgets of a numeric column can produce
NumericChoices ==
    {[kind |-> k, param |-> None] : k \in {"mean", "median"}}
        \cup {[kind |-> "numeric_constant", param |-> p] : p \in NumTexts}

\* what the strategy widgets of a non-numeric column can produce
CategoricalChoices ==
    {[kind |-> k, param |-> None] : k \in {"mode", "ffill", "bfill"}}
        \cup {[kind |-> "cat_constant", param |-> p] : p \in CatTexts}

\* every strategy mapping: some columns, each with any (kind, param)
AllStrategies ==
    UNION {[chosen -> NumericChoices \cup CategoricalChoices] :
              chosen \in SUBSET Cols}

\* the strategy mappings the widgets can build for table t: the user picks
\* the columns, and each column is offered the kinds of its dtype only
UIStrategies(t) ==
    {st \in AllStrategies :
        \A c \in DOMAIN st :
            st[c] \in (IF is_numeric_dtype(t, c) THEN NumericChoices
                       ELSE CategoricalChoices)}

\* the mapping of a run in which the imputation block does not execute
NoStrategies == [c \in {} |-> [kind |-> "", param |-> None]]

\* one iteration of the imputation loop: r is the table written so far,
\* with the changed flag and the columns warned about
ApplyOne(r, c, strategy, param) ==
    LET col == Column(r.df, c)
        filled(newcol) ==
            [df |-> SetColumn(r.df, c, newcol), changed |-> TRUE, skipped |-> r.skipped]
    IN  IF strategy \in {"mean", "median"} /\ is_numeric_dtype(r.df, c)
        THEN filled(fillna(col, IF strategy = "mean" THEN mean(col) ELSE median(col)))
        ELSE IF strategy = "numeric_constant"
        THEN filled(fillna(col, IF param # "" /\ ParseFloat(param).ok
                                THEN ParseFloat(param).v ELSE Num(0, 1)))
        ELSE IF strategy = "mode" THEN filled(fillna(col, mode_fill(col)))
        ELSE IF strategy = "ffill" THEN filled(ffill(col))
        ELSE IF strategy = "bfill" THEN filled(bfill(col))
        ELSE IF strategy = "cat_constant"
        THEN filled(fillna(col, IF param # "" THEN Str(param) ELSE Str("Unknown")))
        ELSE [df |-> r.df, changed |-> r.changed, skipped |-> r.skipped \cup {c}]

\* the imputation loop over strategies.items(), written into table t
RECURSIVE ApplyLoop(_, _, _)
ApplyLoop(r, st, todo) ==
    IF todo = {} THEN r
    ELSE LET c == CHOOSE x \in todo : \A y \in todo : x <= y
         IN  ApplyLoop(ApplyOne(r, c, st[c].kind, st[c].param), st, todo \ {c})

ApplyStrategies(t, st) ==
    ApplyLoop([df |-> t, changed |-> FALSE, skipped |-> {}], st, DOMAIN st)

(* ------------------------------- state -------------------------------- *)

VARIABLES
    uploaded_file,              \* the file_uploader widget: NoFile or a file
    default_remove_duplicates,  \* checkbox "Remove duplicates on upload"
    default_dropna_on_upload,   \* checkbox "Drop rows with any missing ..."
    uploaded_name,              \* st.session_state["uploaded_name"]
    original_df,                \* st.session_state["original_df"]
    df,                         \* st.session_state["df"]
    aliased,                    \* the two session tables are one object
    ev,                         \* what triggered the latest run
    stopped,                    \* where the latest run stopped early, if so
    initialized,                \* the latest run executed lines 64-69
    notice,                     \* st.success / st.info / st.error message
    skipped,                    \* columns named by st.warning
    strategies                  \* the mapping ApplyDispatch gave the block

vars ==
    <<uploaded_file, default_remove_duplicates, default_dropna_on_upload,
      uploaded_name, original_df, df, aliased, ev, stopped, initialized,
      notice, skipped, strategies>>

\* the uploader holds no file
NoFile == [name |-> "", ok |-> FALSE]

\* "uploaded_name" (and with it "df", "original_df") is not in session_state
NoName == ""

Notice(kind, n) == [kind |-> kind, n |-> n]

\* the part of st.session_state the script keeps
Session ==
    [uploaded_name |-> uploaded_name, original_df |-> original_df,
     df |-> df, aliased |-> aliased]

\* reset_session_df without the two .copy(): both entries are the object t
reset_session_df_no_copy(t) == [original_df |-> t, df |-> t, aliased |-> TRUE]

\* reset_session_df(t): both entries get their own copy of t
reset_session_df(t) == [original_df |-> t, df |-> t, aliased |-> FALSE]

\* lines 62-69 without the comparison of names: every run that reads a
\* file replaces the session tables
LoadBlock_every_run(sess, up, df_in, cb_dup, cb_na) ==
    IF up # NoFile
    THEN LET r  == reset_session_df(df_in)
             d1 == IF cb_dup THEN reset_index(drop_duplicates(r.df)) ELSE r.df
             d2 == IF cb_na THEN reset_index(dropna(d1)) ELSE d1
         IN  [uploaded_name |-> up.name, original_df |-> r.original_df,
              df |-> d2, aliased |-> r.aliased /\ ~cb_dup /\ ~cb_na]
    ELSE sess

\* lines 62-69 with lines 66-69 moved out of the if: the checked defaults
\* run on the working table in every run that reads a file
LoadBlock_defaults_every_run(sess, up, df_in, cb_dup, cb_na) ==
    IF up # NoFile
    THEN LET new == up.name # sess.uploaded_name
             r   == reset_session_df(df_in)
             d0  == IF new THEN r.df ELSE sess.df
             d1  == IF cb_dup THEN reset_index(drop_duplicates(d0)) ELSE d0
             d2  == IF cb_na THEN reset_index(dropna(d1)) ELSE d1
         IN  [uploaded_name |-> up.name,
              original_df |-> IF new THEN r.original_df ELSE sess.original_df,
              df |-> d2,
              aliased |-> (IF new THEN r.aliased ELSE sess.aliased)
                              /\ ~cb_dup /\ ~cb_na]
    ELSE sess

\* lines 62-69: a file whose name differs from the stored one replaces the
\* session tables; the checked defaults then run once, duplicates first
LoadBlock(sess, up, df_in, cb_dup, cb_na) ==
    IF up # NoFile /\ up.name # sess.uploaded_name
    THEN LET r  == reset_session_df(df_in)
             d1 == IF cb_dup THEN reset_index(drop_duplicates(r.df)) ELSE r.df
             d2 == IF cb_na THEN reset_index(dropna(d1)) ELSE d1
         IN  [uploaded_name |-> up.name, original_df |-> r.original_df,
              df |-> d2, aliased |-> r.aliased /\ ~cb_dup /\ ~cb_na]
    ELSE sess

\* line 125 without keep=False: the later rows of each group only
dup_idx_keep_first(t) == Take(t, duplicated(t)).index

\* line 125: the index labels of the rows that have a duplicate
dup_idx(t) == Take(t, duplicated_keep_false(t)).index

\* lines 124-129, "Show duplicate sample": the rows are shown, or the
\* user is told there are none
ShowDuplicateSample(sess) ==
    [sess   |-> sess,
     notice |-> IF Len(dup_idx(sess.df)) # 0
                THEN Notice("dup_sample", Len(dup_idx(sess.df)))
                ELSE Notice("no_dups", 0)]

\* lines 130-134, "Remove duplicate rows"
RemoveDuplicateRows(sess) ==
    LET Stored(before, new) ==
            [sess   |-> [sess EXCEPT !.df = new, !.aliased = FALSE],
             notice |-> Notice("removed", before - len(new))]
    IN  Stored(len(sess.df), reset_index(drop_duplicates(sess.df)))

\* "Reset to original upload" handing the working table to reset_session_df
ResetToWorking(sess) ==
    LET Stored(r) ==
            [sess   |-> [sess EXCEPT !.original_df = r.original_df,
                                     !.df = r.df,
                                     !.aliased = r.aliased],
             notice |-> Notice("reset", 0)]
    IN  Stored(reset_session_df(sess.df))

\* lines 138-140, "Reset to original upload"
ResetToOriginal(sess) ==
    LET Stored(r) ==
            [sess   |-> [sess EXCEPT !.original_df = r.original_df,
                                     !.df = r.df,
                                     !.aliased = r.aliased],
             notice |-> Notice("reset", 0)]
    IN  Stored(reset_session_df(sess.original_df))

\* lines 142-146, "Drop rows with any missing values"
DropRowsWithMissing(sess) ==
    LET Stored(before, new) ==
            [sess   |-> [sess EXCEPT !.df = new, !.aliased = FALSE],
             notice |-> Notice("dropped", before - len(new))]
    IN  Stored(len(sess.df), reset_index(dropna(sess.df)))

\* lines 124-146: the four buttons of the right column; at most one of
\* them is pressed in a run
ButtonBlock(sess, trigger) ==
    CASE trigger = "show_dups"   -> ShowDuplicateSample(sess)
      [] trigger = "remove_dups" -> RemoveDuplicateRows(sess)
      [] trigger = "reset"       -> ResetToOriginal(sess)
      [] trigger = "dropna"      -> DropRowsWithMissing(sess)
      [] OTHER                   -> [sess |-> sess, notice |-> Notice("none", 0)]

\* lines 149-194: the imputation block.  The loop writes the columns into
\* the session's table object itself; a table sharing that object sees the
\* writes too.  When something was applied the session gets a new object
ImputeBlock(sess, st) ==
    LET Written(r) ==
            [sess    |-> [sess EXCEPT
                             !.df = IF r.changed THEN reset_index(r.df) ELSE r.df,
                             !.original_df = IF sess.aliased THEN r.df ELSE @,
                             !.aliased = sess.aliased /\ ~r.changed],
             changed |-> r.changed,
             skipped |-> r.skipped]
    IN  Written(ApplyStrategies(sess.df, st))

(* ------------------------------ one run ------------------------------- *)

\* a stop that also empties st.session_state
Stop_clearing(where, message) ==
    /\ stopped' = where
    /\ notice' = Notice(message, 0)
    /\ initialized' = FALSE
    /\ skipped' = {}
    /\ uploaded_name' = NoName
    /\ original_df' = NoTable
    /\ df' = NoTable
    /\ aliased' = FALSE

\* the message without st.stop(): the run goes on and draws the page
Stop_drawing(where, message) ==
    /\ stopped' = "none"
    /\ notice' = Notice(message, 0)
    /\ initialized' = FALSE
    /\ skipped' = {}
    /\ UNCHANGED <<uploaded_name, original_df, df, aliased>>

\* st.stop(): the run ends here; session_state keeps what it held
Stop(where, message) ==
    /\ stopped' = where
    /\ notice' = Notice(message, 0)
    /\ initialized' = FALSE
    /\ skipped' = {}
    /\ UNCHANGED <<uploaded_name, original_df, df, aliased>>

\* One execution of the script.  trigger is the interaction that caused it,
\* up and the two checkbox values are the widget values it reads, file_rows
\* is what read_file parses from up, and st is the mapping built by the
\* strategy widgets
Run(trigger, up, cb_dup, cb_na, file_rows, st) ==
    /\ ev' = trigger
    /\ uploaded_file' = up
    /\ default_remove_duplicates' = cb_dup
    /\ default_dropna_on_upload' = cb_na
    /\ IF up # NoFile /\ ~up.ok
       THEN Stop("read_error", "read_error")
       ELSE \E s1 \in {LoadBlock(Session, up, read_file(file_rows), cb_dup, cb_na)} :
              IF s1.uploaded_name = NoName
              THEN Stop("no_data", "upload_hint")
              ELSE \E b \in {ButtonBlock(s1, trigger)} :
                   \E a \in {IF up # NoFile /\ trigger = "apply"
                             THEN ImputeBlock(b.sess, st)
                             ELSE [sess |-> b.sess, changed |-> FALSE, skipped |-> {}]} :
                       /\ stopped' = "none"
                       /\ initialized' = (s1.uploaded_name # uploaded_name)
                       /\ uploaded_name' = a.sess.uploaded_name
                       /\ original_df' = a.sess.original_df
                       /\ df' = a.sess.df
                       /\ aliased' = a.sess.aliased
                       /\ notice' = IF a.changed THEN Notice("applied", 0) ELSE b.notice
                       /\ skipped' = a.skipped

\* a run whose trigger is not a new file: read_file answers from
\* st.cache_data, and its result is not used (see CacheUnused)
Rerun(trigger, cb_dup, cb_na, st) ==
    Run(trigger, uploaded_file, cb_dup, cb_na, <<>>, st)

\* the widgets of the right column exist only if the latest run drew them
Drawn == stopped = "none"

\* the summary table a run shows for the working table it starts from
Summary == summary_stats(df)

(* ------------------------------ actions ------------------------------- *)

\* the user puts a file into the uploader: a readable one with the given
\* rows, or an unreadable one
Upload ==
    \E name \in FileNames, ok \in BOOLEAN,
       rows \in FileRows(NumVals, StrVals, MaxSessionRows) :
        /\ ok \/ rows = <<>>
        /\ strategies' = NoStrategies
        /\ Run("upload", [name |-> name, ok |-> ok], default_remove_duplicates,
               default_dropna_on_upload, rows, NoStrategies)

\* the user removes the file from the uploader
ClearUpload ==
    /\ uploaded_file # NoFile
    /\ strategies' = NoStrategies
    /\ Run("clear", NoFile, default_remove_duplicates, default_dropna_on_upload,
           <<>>, NoStrategies)

ToggleRemoveDuplicates ==
    /\ strategies' = NoStrategies
    /\ Rerun("toggle", ~default_remove_duplicates, default_dropna_on_upload, NoStrategies)

ToggleDropna ==
    /\ strategies' = NoStrategies
    /\ Rerun("toggle", default_remove_duplicates, ~default_dropna_on_upload, NoStrategies)

\* the run that follows a press of one of the buttons of the right column
Press(trigger, st) ==
    Rerun(trigger, default_remove_duplicates, default_dropna_on_upload, st)

ShowDuplicates ==
    /\ Drawn
    /\ strategies' = NoStrategies
    /\ Press("show_dups", NoStrategies)

RemoveDuplicates ==
    /\ Drawn
    /\ strategies' = NoStrategies
    /\ Press("remove_dups", NoStrategies)

Reset ==
    /\ Drawn
    /\ strategies' = NoStrategies
    /\ Press("reset", NoStrategies)

DropMissing ==
    /\ Drawn
    /\ strategies' = NoStrategies
    /\ Press("dropna", NoStrategies)

\* "Apply missing-value strategies", with whatever the strategy widgets hold
ApplyImpute ==
    /\ Drawn
    /\ strategies' = NoStrategies
    /\ \E st \in UIStrategies(df) : Press("apply", st)

\* the first run of a new session: nothing uploaded, nothing stored
Init ==
    /\ uploaded_file = NoFile
    /\ default_remove_duplicates = FALSE
    /\ default_dropna_on_upload = FALSE
    /\ uploaded_name = NoName
    /\ original_df = NoTable
    /\ df = NoTable
    /\ aliased = FALSE
    /\ ev = "open"
    /\ stopped = "no_data"
    /\ initialized = FALSE
    /\ notice = Notice("upload_hint", 0)
    /\ skipped = {}
    /\ strategies = NoStrategies

Next ==
    \/ Upload
    \/ ClearUpload
    \/ ToggleRemoveDuplicates
    \/ ToggleDropna
    \/ ShowDuplicates
    \/ RemoveDuplicates
    \/ Reset
    \/ DropMissing
    \/ ApplyImpute

\* the whole program, on files of at most MaxSessionRows rows
Spec == Init /\ [][Next]_vars

\* read_file's result matters only in the run that follows an upload
CacheUnused == initialized => ev = "upload"

(* ----------------------- cleaning of one upload ----------------------- *)

\* the file a session starts with: readable, of at most MaxRows rows, put
\* into the uploader with both checkboxes as the program starts them
FirstUpload ==
    /\ uploaded_name = NoName
    /\ \E rows \in FileRows(NumVals, StrVals, MaxRows) :
           /\ strategies' = NoStrategies
           /\ Run("upload", [name |-> "a.csv", ok |-> TRUE], FALSE, FALSE, rows,
                  NoStrategies)

NextClean ==
    \/ FirstUpload
    \/ ShowDuplicates
    \/ RemoveDuplicates
    \/ Reset
    \/ DropMissing
    \/ ApplyImpute

\* the cleaning operations on one uploaded file of at most MaxRows rows
SpecClean == Init /\ [][NextClean]_vars

(* --------------------- the imputation block alone --------------------- *)

\* the file the block is exercised on
WideUpload ==
    /\ uploaded_name = NoName
    /\ \E rows \in FileRows(WideNumVals, WideStrVals, MaxRows) :
           /\ strategies' = NoStrategies
           /\ Run("upload", [name |-> "a.csv", ok |-> TRUE], FALSE, FALSE, rows,
                  NoStrategies)

\* lines 149-194 executed on the uploaded table with any strategy mapping,
\* also one the strategy widgets would not build
ApplyDispatch ==
    /\ Drawn
    /\ ev = "upload"
    /\ \E st \in AllStrategies :
           /\ strategies' = st
           /\ Press("apply", st)

NextApply ==
    \/ WideUpload
    \/ ApplyDispatch

SpecApply == Init /\ [][NextApply]_vars

(* ------------------ imputation without the uploader ------------------ *)

\* "Apply missing-value strategies" pressed once after the file was
\* uploaded or was removed from the uploader again, with the mapping of the
\* strategy widgets
ApplyRequest ==
    /\ Drawn
    /\ ev \in {"upload", "clear"}
    /\ \E st \in UIStrategies(df) :
           /\ strategies' = st
           /\ Press("apply", st)

NextGate ==
    \/ FirstUpload
    \/ ClearUpload
    \/ ApplyRequest

\* one upload, the file removed from the uploader or not, then the button
SpecGate == Init /\ [][NextGate]_vars

(* ------------------------------- claims ------------------------------- *)

\* the latest run executed the script to its end with this trigger
Ran(trigger) == ev = trigger /\ stopped = "none"

Loaded == uploaded_name # NoName

\* some cell of table t is missing
HasMissing(t) == \E i \in 1..len(t), c \in Cols : isnull(t.rows[i][c])

\* C1: whatever was done to the working table before, a run that presses
\* "Reset to original upload" leaves the working table equal to the
\* original table of the session.
C1_ResetRestoresOriginal ==
    [][(Ran("reset"))' => df' = original_df]_vars

\* a reset has acted on a session whose original has a missing cell and a
\* row to lose, so that every cleaning operation could change the table
C1_Witness ==
    /\ Ran("reset")
    /\ df = original_df
    /\ HasMissing(df)
    /\ len(df) = MaxSessionRows

\* C2: a run that does not initialize the session leaves original_df as it
\* was: no button, no imputation and no rerun changes the original table.
C2_OriginalUntouched ==
    [][~initialized' => original_df' = original_df]_vars

\* the imputation block has written into the working table, which now
\* differs from the original
C2_Witness ==
    /\ Ran("apply")
    /\ notice.kind = "applied"
    /\ df # original_df

\* rows of t that are identical to at least one other row of t
InDuplicateGroup(t) ==
    {i \in 1..len(t) : \E j \in 1..len(t) : j # i /\ t.rows[j] = t.rows[i]}

\* C3 as stated: the summary's duplicate count is the number of rows that
\* are identical to at least one other row (k for a group of k).
C3_AsClaimed ==
    Loaded => Summary.duplicates = Cardinality(InDuplicateGroup(df))

\* C3 amended: the summary's duplicate count is the number of rows beyond
\* the first of each group of identical rows (k - 1 for a group of k),
\* that is the row count less the number of distinct rows.
C3_DuplicatesBeyondFirst ==
    Loaded => Summary.duplicates = len(df) - Cardinality({df.rows[i] : i \in 1..len(df)})

\* three identical rows: the summary reports 2
C3_Witness ==
    /\ Loaded
    /\ len(df) = 3
    /\ Cardinality(InDuplicateGroup(df)) = 3
    /\ Summary.duplicates = 2

\* the latest run executed the imputation block with the recorded mapping
Imputed == Ran("apply") /\ uploaded_file # NoFile

\* C4 as stated: mean or median on a numeric column whose cells are all
\* missing fills every cell of the column with 0.
C4_AsClaimed ==
    [][Imputed' =>
        \A c \in DOMAIN strategies' :
            (/\ strategies'[c].kind \in {"mean", "median"}
             /\ is_numeric_dtype(df, c)
             /\ \A i \in 1..len(df) : isnull(df.rows[i][c]))
            => \A i \in 1..len(df') : df'.rows[i][c] = Num(0, 1)]_vars

NumericKinds == {"mean", "median", "numeric_constant"}

C6_AsClaimed ==
    Loaded =>
        \A c \in Cols :
            LET p == Summary.missing_pct[c]
            IN  /\ ~p.nan
                /\ 0 <= p.v /\ p.v <= 10000
                /\ len(df) > 0 =>
                       \A q \in 0..10000 :
                           (2 * Abs(q * len(df) - Summary.missing[c] * 10000) < len(df))
                           => p.v = q

\* number of distinct row values among the rows findDuplicates lists
DuplicateGroups(t) ==
    Cardinality({t.rows[i] : i \in {x \in 1..len(t) : \E k \in DOMAIN dup_idx(t) :
                                                      dup_idx(t)[k] = t.index[x]}})

\* C7: pressing "Remove duplicate rows" leaves as many rows as there were,
\* less the rows "Show duplicate sample" would list, plus one per group of
\* identical rows among them.
C7_FindAndRemoveAgree ==
    [][(Ran("remove_dups"))' =>
        len(df') = len(df) - (Len(dup_idx(df)) - DuplicateGroups(df))]_vars

\* a removal that dropped the two extra rows of a group of three
C7_Witness ==
    /\ Ran("remove_dups")
    /\ notice = Notice("removed", 2)
    /\ len(df) = 1

\* C8: "Remove duplicate rows" pressed right after "Remove duplicate rows"
\* changes nothing and reports 0 removed rows.
C8_RemoveTwice ==
    [][(Ran("remove_dups") /\ (Ran("remove_dups"))') =>
        (df' = df /\ notice'.n = 0)]_vars

\* a removal that found nothing left to remove, in a table that has lost
\* rows of an original without missing cells: only a removal took them
C8_Witness ==
    /\ Ran("remove_dups")
    /\ notice = Notice("removed", 0)
    /\ ~HasMissing(original_df)
    /\ len(df) < len(original_df)

\* positions of the rows of t that equal no earlier row
FirstOccurrences(t) ==
    {i \in 1..len(t) : \A j \in 1..(i - 1) : t.rows[j] # t.rows[i]}

\* table new holds exactly the rows of old at the positions in keep, in
\* their order, numbered 0, 1, 2, ...
HoldsRows(new, old, keep) ==
    /\ len(new) = Cardinality(keep)
    /\ \A i \in keep :
           new.rows[Cardinality({j \in keep : j <= i})] = old.rows[i]
    /\ new.index = [k \in 1..len(new) |-> k - 1]
    /\ new.dtypes = old.dtypes

\* C9: "Remove duplicate rows" keeps the first occurrence of every distinct
\* row and nothing else, in the order the rows had, and reports the
\* difference of the row counts.
C9_KeepsFirstOccurrences ==
    [][(Ran("remove_dups"))' =>
        /\ HoldsRows(df', df, FirstOccurrences(df))
        /\ notice' = Notice("removed", len(df) - len(df'))]_vars

\* three rows, the first two identical, became two rows, 1 removed
C9_Witness ==
    /\ Ran("remove_dups")
    /\ notice = Notice("removed", 1)
    /\ len(df) = 2
    /\ len(original_df) = 3
    /\ original_df.rows[1] = original_df.rows[2]
    /\ df.rows = <<original_df.rows[1], original_df.rows[3]>>

\* positions of the rows of t without a missing cell
CompleteRows(t) ==
    {i \in 1..len(t) : \A c \in Cols : t.rows[i][c] # NaN}

\* C10: "Drop rows with any missing values" leaves exactly the rows that
\* had no missing cell, in their order, so that no cell is missing, and
\* reports the number of rows that had a missing cell.
C10_DropsRowsWithMissing ==
    [][(Ran("dropna"))' =>
        /\ HoldsRows(df', df, CompleteRows(df))
        /\ ~HasMissing(df')
        /\ notice' = Notice("dropped", len(df) - Cardinality(CompleteRows(df)))]_vars

\* of one complete row and one row with a missing cell, the complete row
\* is left
C10_Witness ==
    /\ Ran("dropna")
    /\ notice = Notice("dropped", 1)
    /\ len(original_df) = 2
    /\ len(df) = 1
    /\ df.rows[1] \in {original_df.rows[i] : i \in 1..2}
    /\ ~HasMissing(df)

\* the nearest non-missing cell of col before position i (dir = -1) or
\* after it (dir = 1), missing if there is none
NearestPresent(col, i, dir) ==
    LET P == {j \in DOMAIN col : (j - i) * dir > 0 /\ ~isnull(col[j])}
    IN  IF P = {} THEN NaN
        ELSE col[CHOOSE j \in P : \A k \in P : (k - j) * dir >= 0]

\* the column as the claim describes a fill in direction dir
FilledFrom(col, dir) ==
    [i \in DOMAIN col |->
        IF isnull(col[i]) THEN NearestPresent(col, i, dir) ELSE col[i]]

\* C11: ffill gives every missing cell the nearest non-missing value above
\* it and leaves leading missing cells missing; bfill does the same with
\* the nearest value below, leaving trailing missing cells missing; ffill
\* on [null, 1, null, null, 2] gives [null, 1, 1, 1, 2].
C11_DirectionalFill ==
    [][/\ Imputed' =>
            \A c \in DOMAIN strategies' :
                /\ strategies'[c].kind = "ffill"
                       => Column(df', c) = FilledFrom(Column(df, c), -1)
                /\ strategies'[c].kind = "bfill"
                       => Column(df', c) = FilledFrom(Column(df, c), 1)
       /\ ffill(<<NaN, Num(1, 1), NaN, NaN, Num(2, 1)>>)
              = <<NaN, Num(1, 1), Num(1, 1), Num(1, 1), Num(2, 1)>>
       /\ bfill(<<Num(1, 1), NaN, NaN, Num(2, 1), NaN>>)
              = <<Num(1, 1), Num(2, 1), Num(2, 1), Num(2, 1), NaN>>]_vars

\* ffill has turned the column [x, null, null] into [x, x, x] while bfill
\* left the other column, whose last cell is missing, with that cell missing
C11_Witness ==
    /\ Imputed
    /\ DOMAIN strategies = Cols
    /\ \E c \in Cols, o \in Cols :
           /\ strategies[c].kind = "ffill"
           /\ strategies[o].kind = "bfill"
           /\ len(df) = 3
           /\ ~isnull(original_df.rows[1][c])
           /\ isnull(original_df.rows[2][c]) /\ isnull(original_df.rows[3][c])
           /\ \A i \in 1..3 : df.rows[i][c] = original_df.rows[1][c]
           /\ isnull(original_df.rows[1][o])
           /\ ~isnull(original_df.rows[2][o])
           /\ isnull(original_df.rows[3][o])
           /\ df.rows[1][o] = original_df.rows[2][o]
           /\ isnull(df.rows[3][o])

\* C12: numeric_constant fills the missing cells with the number its
\* parameter parses to, and with 0.0 when the parameter is empty or is text
\* that is no number; the other cells keep their values and the run goes
\* through to its end.
C12_NumericConstant ==
    [][(ev' = "apply" /\ uploaded_file' # NoFile /\ Drawn) =>
        /\ stopped' = "none"
        /\ \A c \in DOMAIN strategies' :
               strategies'[c].kind = "numeric_constant" =>
                   LET p == strategies'[c].param
                       v == CASE p = "2"   -> Num(2, 1)
                              [] p = "nan" -> NaN
                              [] OTHER     -> Num(0, 1)
                   IN  /\ c \notin skipped'
                       /\ \A i \in 1..len(df) :
                              df'.rows[i][c] = IF isnull(df.rows[i][c]) THEN v
                                               ELSE df.rows[i][c]]_vars

\* the parameter "abc" on the numeric column [1, null, 2]: the gap holds 0.0
C12_Witness ==
    /\ Imputed
    /\ \E c \in DOMAIN strategies :
           /\ strategies[c] = [kind |-> "numeric_constant", param |-> "abc"]
           /\ Column(original_df, c) = <<Num(1, 1), NaN, Num(2, 1)>>
           /\ Column(df, c) = <<Num(1, 1), Num(0, 1), Num(2, 1)>>

\* triggers of the runs that press a cleaning button
CleaningTriggers == {"remove_dups", "reset", "dropna", "apply"}

\* C13: a run replaces the session's original and working tables exactly
\* when it reads a file whose name differs from the stored name (or none is
\* stored); a run that reads a file of the stored name, or no file, and
\* presses no cleaning button leaves name, original and working as they
\* were, cleaning done so far included.
C13_InitializedByNewName ==
    [][LET up == uploaded_file'
           fresh == up # NoFile /\ up.ok /\ up.name # uploaded_name
       IN  /\ initialized' <=> fresh
           /\ fresh => /\ uploaded_name' = up.name
                       /\ original_df' # NoTable
                       /\ ~default_remove_duplicates' /\ ~default_dropna_on_upload'
                              => df' = original_df'
           /\ (~fresh /\ ev' \notin CleaningTriggers)
                  => UNCHANGED <<uploaded_name, original_df, df>>]_vars

\* a file of the stored name was put into the uploader of a session whose
\* working table had been cleaned: the cleaned table is still there
C13_Witness ==
    /\ ev = "upload"
    /\ stopped = "none"
    /\ uploaded_file.name = uploaded_name
    /\ ~initialized
    /\ len(df) < len(original_df)

\* positions of the rows of t the checked load-time defaults leave
DefaultsKeep(t, cb_dup, cb_na) ==
    {i \in 1..len(t) : /\ cb_dup => i \in FirstOccurrences(t)
                       /\ cb_na => i \in CompleteRows(t)}

\* C14: the checked load-time defaults act on the working table in the run
\* that initializes the session, duplicates first and missing rows second,
\* and in no other run: a reset gives the unreduced original, and a run
\* that neither initializes nor presses a cleaning button (a checkbox
\* switched on, the same file again) leaves the working table as it was.
C14_DefaultsOnlyAtLoad ==
    [][/\ initialized' =>
              /\ HoldsRows(df', original_df',
                           DefaultsKeep(original_df', default_remove_duplicates',
                                        default_dropna_on_upload'))
              /\ df' = (IF default_dropna_on_upload'
                        THEN reset_index(dropna(
                                 IF default_remove_duplicates'
                                 THEN reset_index(drop_duplicates(original_df'))
                                 ELSE original_df'))
                        ELSE IF default_remove_duplicates'
                             THEN reset_index(drop_duplicates(original_df'))
                             ELSE original_df')
       /\ (Ran("reset"))' => df' = original_df
       /\ (~initialized' /\ ev' \notin CleaningTriggers) => df' = df]_vars

\* both checkboxes are on, and the run that switched one of them on left
\* a working table with two identical rows that have a missing cell
C14_Witness ==
    /\ ev = "toggle"
    /\ stopped = "none"
    /\ default_remove_duplicates /\ default_dropna_on_upload
    /\ len(df) = 2
    /\ df.rows[1] = df.rows[2]
    /\ HasMissing(df)

\* C15: a run whose file cannot be read stops there: stored name, original
\* and working table are what they were before the run, so that what
\* later runs find in the session is what they would have found without it.
C15_FailedLoadKeepsSession ==
    [][(uploaded_file' # NoFile /\ ~uploaded_file'.ok) =>
        /\ stopped' = "read_error"
        /\ UNCHANGED <<uploaded_name, original_df, df>>]_vars

\* an unreadable file was given to a session whose working table had been
\* cleaned: the session still holds both tables
C15_Witness ==
    /\ stopped = "read_error"
    /\ Loaded
    /\ len(df) < len(original_df)

\* C16: while nothing is loaded every run ends at the guard of lines 72-74,
\* before the summary and the cleaning buttons: the session stays without
\* tables and no cleaning run happens; only the run of a readable upload,
\* which initializes the session, makes it loaded.
C16_EmptyGuard ==
    [][~Loaded =>
        /\ ev' \notin CleaningTriggers \cup {"show_dups"}
        /\ Loaded' => (ev' = "upload" /\ uploaded_file'.ok /\ initialized')
        /\ ~Loaded' => /\ stopped' # "none"
                       /\ df' = NoTable
                       /\ original_df' = NoTable]_vars

\* a run in the empty session, after an unreadable upload was removed again
\* and a checkbox switched: it stopped at the guard
C16_Witness ==
    /\ ~Loaded
    /\ ev = "toggle"
    /\ default_dropna_on_upload
    /\ uploaded_file = NoFile
    /\ stopped = "no_data"
    /\ df = NoTable

\* C17: the imputation block writes only into columns named in the
\* mapping: every other column has the same cells in the same row order and
\* the same dtype afterwards, and the table has the rows, the row labels and
\* the columns it had.
C17_OtherColumnsUntouched ==
    [][Imputed' =>
        /\ len(df') = len(df)
        /\ df'.index = df.index
        /\ DOMAIN df'.dtypes = DOMAIN df.dtypes
        /\ \A i \in 1..len(df) : DOMAIN df'.rows[i] = DOMAIN df.rows[i]
        /\ \A c \in Cols \ DOMAIN strategies' :
               /\ Column(df', c) = Column(df, c)
               /\ df'.dtypes[c] = df.dtypes[c]]_vars

\* one column was named and filled; the other column, not named, still has
\* its missing cell
C17_Witness ==
    /\ Imputed
    /\ \E c \in Cols :
           /\ DOMAIN strategies = {c}
           /\ Column(df, c) # Column(original_df, c)
           /\ \A o \in Cols \ {c} :
                  /\ \E i \in 1..len(df) : isnull(df.rows[i][o])
                  /\ Column(df, o) = Column(original_df, o)

\* C18 as stated: on a table with rows, the block reports a change (the
\* flag behind "Applied missing-value strategies.") exactly when some cell
\* of the working table differs after the run from what it was before.
C18_AsClaimed ==
    [][(Imputed' /\ len(df) > 0) =>
        ((notice'.kind = "applied") <=> (df'.rows # df.rows))]_vars

\* C19 as stated: in a loaded session a press of "Apply missing-value
\* strategies" with a mapping that names a column with a missing cell is
\* carried out on the working table, with or without a file in the
\* uploader.
C19_AsClaimed ==
    [][(/\ ev' = "apply" /\ Loaded /\ Drawn
        /\ \E c \in DOMAIN strategies', i \in 1..len(df) : isnull(df.rows[i][c])) =>
        /\ notice'.kind = "applied"
        /\ df' = ImputeBlock(Session, strategies').sess.df]_vars

\* C20: whatever the kind and the parameter, a cell of a named column that
\* was not missing keeps its value, so the cells missing afterwards were
\* missing before.
C20_OnlyGapsFilled ==
    [][Imputed' =>
        /\ len(df') = len(df)
        /\ \A c \in DOMAIN strategies', i \in 1..len(df) :
               /\ ~isnull(df.rows[i][c]) => df'.rows[i][c] = df.rows[i][c]
               /\ isnull(df'.rows[i][c]) => isnull(df.rows[i][c])]_vars

\* cat_constant with an empty parameter on the column ["a", null, "b"]:
\* the column is ["a", "Unknown", "b"]
C20_Witness ==
    /\ Imputed
    /\ \E c \in DOMAIN strategies :
           /\ strategies[c] = [kind |-> "cat_constant", param |-> ""]
           /\ Column(original_df, c) = <<Str("a"), NaN, Str("b")>>
           /\ Column(df, c) = <<Str("a"), Str("Unknown"), Str("b")>>

=============================================================================
